---- MODULE Spec2Model ----
(***************************************************************************)
(* Model of hypothesis.extra.codemods: the refactor pipeline and its two   *)
(* LibCST rewrite rules, HypothesisFixPositionalKeywonlyArgs (Rule A) and  *)
(* HypothesisFixComplexMinMagnitude (Rule B).                              *)
(*                                                                         *)
(* A source unit is a sequence of Call nodes.  A Call carries the answer   *)
(* of QualifiedNameProvider for it (qualnames), whether its callee         *)
(* expression is itself a Call (funcIsCall), the index of the Call that    *)
(* encloses it (parent, 0 at top level) and its Arg nodes.  An Arg has a   *)
(* keyword ("" for none), a star ("", "*" or "**") and a value; the value  *)
(* "<call>" stands for a nested Call, whose index is in child.             *)
(***************************************************************************)
EXTENDS Integers, Sequences, FiniteSets, TLC

\* ---------------------------------------------------------------- bounds
MaxArgs == 4
MaxFloatsArgs == 8
MaxNestedArgs == 1
MaxSplat == 2
MaxRuns == 2

\* ------------------------------------------------------- qualified names
CN == "hypothesis.strategies.complex_numbers"
FR == "hypothesis.strategies.fractions"
FL == "hypothesis.strategies.floats"
HELPER == "mymod.helper"

kwonly_functions ==
    { "hypothesis.target", "hypothesis.find",
      "hypothesis.extra.lark.from_lark",
      "hypothesis.extra.numpy.arrays",
      "hypothesis.extra.numpy.array_shapes",
      "hypothesis.extra.numpy.unsigned_integer_dtypes",
      "hypothesis.extra.numpy.integer_dtypes",
      "hypothesis.extra.numpy.floating_dtypes",
      "hypothesis.extra.numpy.complex_number_dtypes",
      "hypothesis.extra.numpy.datetime64_dtypes",
      "hypothesis.extra.numpy.timedelta64_dtypes",
      "hypothesis.extra.numpy.byte_string_dtypes",
      "hypothesis.extra.numpy.unicode_string_dtypes",
      "hypothesis.extra.numpy.array_dtypes",
      "hypothesis.extra.numpy.nested_dtypes",
      "hypothesis.extra.numpy.valid_tuple_axes",
      "hypothesis.extra.numpy.broadcastable_shapes",
      "hypothesis.extra.pandas.indexes",
      "hypothesis.extra.pandas.series",
      "hypothesis.extra.pandas.columns",
      "hypothesis.extra.pandas.data_frames",
      "hypothesis.provisional.domains",
      "hypothesis.stateful.run_state_machine_as_test",
      "hypothesis.stateful.rule",
      "hypothesis.stateful.initialize",
      "hypothesis.strategies.floats",
      "hypothesis.strategies.lists",
      "hypothesis.strategies.sets",
      "hypothesis.strategies.frozensets",
      "hypothesis.strategies.iterables",
      "hypothesis.strategies.dictionaries",
      "hypothesis.strategies.characters",
      "hypothesis.strategies.text",
      "hypothesis.strategies.from_regex",
      "hypothesis.strategies.binary",
      "hypothesis.strategies.fractions",
      "hypothesis.strategies.decimals",
      "hypothesis.strategies.recursive",
      "hypothesis.strategies.complex_numbers",
      "hypothesis.strategies.shared",
      "hypothesis.strategies.uuids",
      "hypothesis.strategies.runner",
      "hypothesis.strategies.functions",
      "hypothesis.strategies.datetimes",
      "hypothesis.strategies.times" }

\* ------------------------------------------------------------ signatures
\* inspect.Parameter descriptors, in declaration order.
POK(n) == [name |-> n, kind |-> "POSITIONAL_OR_KEYWORD"]

KWO(n) == [name |-> n, kind |-> "KEYWORD_ONLY"]

\* signature(get_fn(name)).parameters.values() for the entry points that
\* occur in the source units explored here.
signature(name) ==
    CASE name = FR -> << POK("min_value"), POK("max_value"),
                         KWO("max_denominator") >>
      [] name = CN -> << KWO("min_magnitude"), KWO("max_magnitude"),
                         KWO("allow_infinity"), KWO("allow_nan") >>
      [] name = FL -> << POK("min_value"), POK("max_value"),
                         KWO("allow_nan"), KWO("allow_infinity"),
                         KWO("allow_subnormal"), KWO("width"),
                         KWO("exclude_min"), KWO("exclude_max") >>
      [] OTHER -> << >>

\* ---------------------------------------------------------------- Rule B
\* lambda qualnames: all(n.name == name for n in qualnames)
match_qualname(name, qualnames) == \A n \in qualnames : n = name

\* HypothesisFixComplexMinMagnitude.leave_Arg (body, once the decorator
\* has let the call through)
leave_Arg(updated_node) ==
    IF updated_node.keyword = "min_magnitude" /\ updated_node.value = "None"
    THEN [updated_node EXCEPT !.value = "0"]
    ELSE updated_node

\* m.call_if_inside(m.Call(metadata=match_qualname(CN))): the Arg is the
\* descendant of some Call node that matches.
RECURSIVE call_if_inside(_, _)
call_if_inside(mod, c) ==
    \/ match_qualname(CN, mod[c].qualnames)
    \/ mod[c].parent # 0 /\ call_if_inside(mod, mod[c].parent)

\* HypothesisFixComplexMinMagnitude(context).transform_module(mod)
FixComplexMinMagnitude(mod) ==
    [c \in DOMAIN mod |->
        IF call_if_inside(mod, c)
        THEN [mod[c] EXCEPT !.args = [i \in DOMAIN @ |-> leave_Arg(@[i])]]
        ELSE mod[c]]

\* ---------------------------------------------------------------- Rule A
\* m.matches(updated_node, m.Call(func=m.DoesNotMatch(m.Call()),
\*                                args=[m.Arg(keyword=None), m.ZeroOrMore()]))
matches_posargs(node) ==
    /\ ~node.funcIsCall
    /\ Len(node.args) >= 1
    /\ node.args[1].keyword = ""

\* the same without the floats special case: the declared parameters
params_of_declared(qualnames) ==
    signature(CHOOSE n \in qualnames : TRUE)

\* lines 205-210: the parameters the arguments are zipped against
params_of(qualnames) ==
    LET name == CHOOSE n \in qualnames : TRUE
        NotSubnormal(p) == p.name # "allow_subnormal"
    IN  IF qualnames = {FL} THEN SelectSeq(signature(name), NotSubnormal)
        ELSE signature(name)

\* the same without the test of arg.keyword: an argument that already has a
\* keyword is renamed after the parameter at its position
newarg_rename(p, arg) ==
    IF arg.star # "" \/ p.kind # "KEYWORD_ONLY"
    THEN arg
    ELSE [arg EXCEPT !.keyword = p.name]

\* one element of the newargs comprehension
newarg(p, arg) ==
    IF arg.keyword # "" \/ arg.star # "" \/ p.kind # "KEYWORD_ONLY"
    THEN arg
    ELSE [arg EXCEPT !.keyword = p.name]

Min(a, b) == IF a <= b THEN a ELSE b

\* [... for p, arg in zip(params, updated_node.args)]
newargs(params, args) ==
    [i \in 1..Min(Len(params), Len(args)) |-> newarg(params[i], args[i])]

\* the same without the arity test of line 212
leave_Call_unchecked(node) ==
    LET qualnames == node.qualnames IN
    IF \/ Cardinality(qualnames) # 1
       \/ qualnames \cap kwonly_functions = {}
       \/ ~matches_posargs(node)
    THEN node
    ELSE [node EXCEPT !.args = newargs(params_of(qualnames), @)]

\* HypothesisFixPositionalKeywonlyArgs.leave_Call
leave_Call(node) ==
    LET qualnames == node.qualnames IN
    IF \/ Cardinality(qualnames) # 1
       \/ qualnames \cap kwonly_functions = {}
       \/ ~matches_posargs(node)
    THEN node
    ELSE LET params == params_of(qualnames) IN
         IF Len(node.args) > Len(params) THEN node
         ELSE [node EXCEPT !.args = newargs(params, @)]

\* HypothesisFixPositionalKeywonlyArgs(context).transform_module(mod)
FixPositionalKeywonlyArgs(mod) == [c \in DOMAIN mod |-> leave_Call(mod[c])]

\* -------------------------------------------------------------- pipeline
\* the two transforms the other way round
transforms_reversed ==
    << "HypothesisFixComplexMinMagnitude",
       "HypothesisFixPositionalKeywonlyArgs" >>

transforms ==
    << "HypothesisFixPositionalKeywonlyArgs",
       "HypothesisFixComplexMinMagnitude" >>

transform_module(transform, mod) ==
    IF transform = "HypothesisFixPositionalKeywonlyArgs"
    THEN FixPositionalKeywonlyArgs(mod)
    ELSE FixComplexMinMagnitude(mod)

\* ----------------------------------------------------------- source units
Arg(kw, st, v) == [keyword |-> kw, star |-> st, value |-> v, child |-> 0]

NestedArg(kw, c) == [keyword |-> kw, star |-> "", value |-> "<call>", child |-> c]

Call(qn, fc, par, as) ==
    [qualnames |-> qn, funcIsCall |-> fc, parent |-> par, args |-> as]

\* what an argument of a parsed call can look like
ArgShapes ==
    { Arg("", "", "None"), Arg("", "", "1"),
      Arg("", "*", "a"), Arg("", "**", "k"),
      Arg("min_magnitude", "", "None"), Arg("min_magnitude", "", "1"),
      Arg("max_denominator", "", "None") }

\* the order of arguments Python's grammar (and Call._validate) accepts
ValidArgs(as) ==
    \A i, j \in DOMAIN as : i < j =>
        /\ (as[j].keyword = "" /\ as[j].star = "") =>
               (as[i].keyword = "" /\ as[i].star # "**")
        /\ as[j].star = "*" => as[i].star # "**"

ArgLists(shapes, n) ==
    { as \in UNION { [1..k -> shapes] : k \in 0..n } : ValidArgs(as) }

\* what QualifiedNameProvider can answer for a call
Resolutions ==
    { {}, {CN}, {FR}, {FL}, {HELPER}, {CN, FR}, {CN, HELPER} }

\* one top-level call
SingleCalls ==
    { << Call(qn, fc, 0, as) >> :
        qn \in Resolutions, fc \in BOOLEAN, as \in ArgLists(ArgShapes, MaxArgs) }

\* one call of floats with plain and splat arguments only
FloatsCalls ==
    { << Call({FL}, fc, 0, as) >> :
        fc \in BOOLEAN,
        as \in ArgLists({Arg("", "", "1"), Arg("", "*", "a")}, MaxFloatsArgs) }

\* a call nested in the argument list of another:  outer(..., inner(...))
NestedCalls ==
    { << Call(qo, FALSE, 0, pre \o << NestedArg(kw, 2) >>), Call(qi, FALSE, 1, as) >> :
        qo \in Resolutions, qi \in Resolutions,
        kw \in {"", "min_magnitude"},
        pre \in ArgLists({Arg("", "", "None")}, MaxNestedArgs - 1),
        as \in ArgLists(ArgShapes, MaxNestedArgs) }

Sources == SingleCalls \cup FloatsCalls \cup NestedCalls

\* ----------------------------------------------------------------- state
VARIABLES
    source,   \* the text handed to the first refactor call
    code,     \* the text handed to the running refactor call
    mod,      \* refactor's local: the tree, rebound by each transform
    pc,       \* index into transforms of the next one to apply
    returned, \* TRUE once refactor has returned mod.code
    run       \* number of the running refactor call

vars == << source, code, mod, pc, returned, run >>

Init ==
    /\ source \in Sources
    /\ code = source
    /\ mod = source
    /\ pc = 1
    /\ returned = FALSE
    /\ run = 1

\* one iteration of `for transform in transforms`
Transform ==
    /\ ~returned
    /\ pc <= Len(transforms)
    /\ mod' = transform_module(transforms[pc], mod)
    /\ pc' = pc + 1
    /\ UNCHANGED << source, code, returned, run >>

\* return mod.code
Return ==
    /\ ~returned
    /\ pc > Len(transforms)
    /\ returned' = TRUE
    /\ UNCHANGED << source, code, mod, pc, run >>

\* refactor(refactor(code)): the returned text is refactored again
Refactor ==
    /\ returned
    /\ run < MaxRuns
    /\ code' = mod
    /\ mod' = mod
    /\ pc' = 1
    /\ returned' = FALSE
    /\ run' = run + 1
    /\ UNCHANGED source

Next == Transform \/ Return \/ Refactor

Spec == Init /\ [][Next]_vars

\* ------------------------------------------------------------ properties
\* The first transform, Rule A, has just been applied to the tree of `code`.
AfterRuleA == pc = 2 /\ ~returned

\* Every transform of the running refactor call has been applied.
AfterRefactor == pc > Len(transforms)

PurelyPositional(arg) == arg.keyword = "" /\ arg.star = ""

NumPositional(args) ==
    Cardinality({ i \in DOMAIN args : PurelyPositional(args[i]) })

AllPositional(args) == \A i \in DOMAIN args : PurelyPositional(args[i])

\* The parameter list the arguments are expected to line up with: the
\* declared one, and for floats the declared one less allow_subnormal.
AlignedParams(name) ==
    IF name = FL
    THEN << POK("min_value"), POK("max_value"), KWO("allow_nan"),
            KWO("allow_infinity"), KWO("width"), KWO("exclude_min"),
            KWO("exclude_max") >>
    ELSE signature(name)

\* The keyword each position of an all-positional call is expected to get.
ExpectedKeywords(name) ==
    CASE name = FL -> << "", "", "allow_nan", "allow_infinity", "width",
                         "exclude_min", "exclude_max" >>
      [] name = FR -> << "", "", "max_denominator" >>
      [] name = CN -> << "min_magnitude", "max_magnitude", "allow_infinity",
                         "allow_nan" >>

TheName(qualnames) == CHOOSE n \in qualnames : TRUE

\* `after` is `before` with the same arguments in the same order and with
\* the same values, where argument i is untouched if it has a keyword, is a
\* splat or lines up with a parameter that is not keyword-only, and else
\* carries the name of parameter i.
Rekeyworded(before, after, P) ==
    /\ after.qualnames = before.qualnames
    /\ after.funcIsCall = before.funcIsCall
    /\ after.parent = before.parent
    /\ Len(after.args) = Len(before.args)
    /\ \A i \in DOMAIN before.args :
          LET a == before.args[i]
              b == after.args[i]
          IN  /\ b.star = a.star
              /\ b.value = a.value
              /\ b.child = a.child
              /\ IF a.keyword # "" \/ a.star # "" \/ P[i].kind # "KEYWORD_ONLY"
                 THEN b = a
                 ELSE b.keyword = P[i].name

InRegistryWithinArity(node) ==
    /\ Cardinality(node.qualnames) = 1
    /\ node.qualnames \subseteq kwonly_functions
    /\ Len(node.args) <= Len(AlignedParams(TheName(node.qualnames)))

\* C1 as stated: every call that resolves to exactly one registry name and
\* has no more arguments than parameters comes out of Rule A rekeyworded
\* position by position.
C1_AsStated ==
    AfterRuleA =>
        \A c \in DOMAIN code :
            InRegistryWithinArity(code[c]) =>
                Rekeyworded(code[c], mod[c],
                            AlignedParams(TheName(code[c].qualnames)))

\* C1 (amended): every call that resolves to exactly one registry name, has
\* no more arguments than parameters and whose callee expression is not
\* itself a call comes out of Rule A with the same arguments in the same
\* order and with the same values, argument i untouched if it has a keyword,
\* is a splat or parameter i is not keyword-only, and else given the name of
\* parameter i.
C1_Rekeyworded ==
    AfterRuleA =>
        \A c \in DOMAIN code :
            (InRegistryWithinArity(code[c]) /\ ~code[c].funcIsCall) =>
                Rekeyworded(code[c], mod[c],
                            AlignedParams(TheName(code[c].qualnames)))

\* fractions(1, 1, 1) has become fractions(1, 1, max_denominator=1)
C1_Witness ==
    /\ AfterRuleA
    /\ run = 1
    /\ code = << Call({FR}, FALSE, 0,
                      << Arg("", "", "1"), Arg("", "", "1"), Arg("", "", "1") >>) >>
    /\ mod[1].args = << Arg("", "", "1"), Arg("", "", "1"),
                        Arg("max_denominator", "", "1") >>

\* C2: refactor is idempotent: a run of refactor on what refactor returned
\* changes nothing, after either transform.
C2_Idempotent == run >= 2 => mod = code

\* the second run has finished on a text that the first run had rewritten
C2_Witness ==
    /\ run = 2
    /\ returned
    /\ code # source
    /\ mod = code

\* C3 as stated: a call whose target resolves to two or more qualified names
\* is the same after refactor as before, wherever it stands in the module.
C3_AmbiguousUnchanged ==
    (run = 1 /\ AfterRefactor) =>
        \A c \in DOMAIN source :
            Cardinality(source[c].qualnames) >= 2 => mod[c] = source[c]

\* C4 as stated: a call for which the resolver returns the empty set is
\* transformed by neither rule.
C4_UnresolvedUnchanged ==
    \A c \in DOMAIN code :
        code[c].qualnames = {} => mod[c] = code[c]

\* C5: refactor applies Rule A before Rule B, so complex_numbers(None)
\* is complex_numbers(min_magnitude=None) after the first transform and
\* complex_numbers(min_magnitude=0) after the second; the two rules in the
\* opposite order end at complex_numbers(min_magnitude=None).
C5_PassOrdering ==
    \A c \in DOMAIN code :
        ( /\ code[c].qualnames = {CN}
          /\ ~code[c].funcIsCall
          /\ code[c].args = << Arg("", "", "None") >> ) =>
            /\ (pc = 2) => mod[c].args = << Arg("min_magnitude", "", "None") >>
            /\ AfterRefactor => mod[c].args = << Arg("min_magnitude", "", "0") >>
            /\ FixPositionalKeywonlyArgs(FixComplexMinMagnitude(code))[c].args
                  = << Arg("min_magnitude", "", "None") >>

\* complex_numbers(None) has been returned as complex_numbers(min_magnitude=0)
C5_Witness ==
    /\ run = 1
    /\ returned
    /\ source = << Call({CN}, FALSE, 0, << Arg("", "", "None") >>) >>
    /\ mod = << Call({CN}, FALSE, 0, << Arg("min_magnitude", "", "0") >>) >>

\* C6: a call to a registry target with more positional arguments than the
\* target's (exclusion-adjusted) parameter list has entries comes out of
\* Rule A with every argument unchanged.
C6_ExcessArity ==
    AfterRuleA =>
        \A c \in DOMAIN code :
            (\E n \in code[c].qualnames \cap kwonly_functions :
                NumPositional(code[c].args) > Len(AlignedParams(n)))
            => mod[c] = code[c]

\* fractions(1, 1, 1, 1) went through Rule A and is unchanged
C6_Witness ==
    /\ AfterRuleA
    /\ code = << Call({FR}, FALSE, 0,
                      << Arg("", "", "1"), Arg("", "", "1"),
                         Arg("", "", "1"), Arg("", "", "1") >>) >>
    /\ mod = code

\* C7: Rule A lines the arguments of floats up against its parameters less
\* allow_subnormal: no argument of a floats call is ever given the keyword
\* allow_subnormal; a call of floats (the callee being floats itself, not the
\* result of a call) with k <= 7 positional arguments gets allow_nan,
\* allow_infinity, width, exclude_min, exclude_max at positions 3..7 and
\* nothing at positions 1..2; and the positional calls of the other targets
\* get the names of their parameters as declared, nothing being excluded.
C7_FloatsExclusion ==
    AfterRuleA =>
        \A c \in DOMAIN code :
            LET node == code[c] IN
            /\ node.qualnames = {FL} =>
                  \A i \in DOMAIN mod[c].args :
                      mod[c].args[i].keyword # "allow_subnormal"
            /\ ( /\ node.qualnames \in {{FL}, {FR}, {CN}}
                 /\ ~node.funcIsCall
                 /\ AllPositional(node.args)
                 /\ Len(node.args) <= Len(ExpectedKeywords(TheName(node.qualnames))) )
               => /\ Len(mod[c].args) = Len(node.args)
                  /\ \A i \in DOMAIN node.args :
                        mod[c].args[i] =
                            [node.args[i] EXCEPT !.keyword =
                                ExpectedKeywords(TheName(node.qualnames))[i]]

\* floats(1, 1, 1, 1, 1, 1, 1) has its fifth argument named width and its
\* seventh exclude_max
C7_Witness ==
    /\ AfterRuleA
    /\ run = 1
    /\ code[1].qualnames = {FL}
    /\ Len(code[1].args) = 7
    /\ AllPositional(code[1].args)
    /\ mod[1].args[5].keyword = "width"
    /\ mod[1].args[7].keyword = "exclude_max"

\* C8 as stated: Rule B changes an argument only if it is min_magnitude=None
\* and a direct argument of a call resolved to exactly complex_numbers, and
\* then only replaces its value by 0.
C8_RuleBFrame ==
    [][ (pc = 2 /\ pc' = 3) =>
          \A c \in DOMAIN mod :
              \A i \in DOMAIN mod[c].args :
                  LET a == mod[c].args[i]
                      b == mod'[c].args[i]
                  IN  b # a =>
                        /\ a.keyword = "min_magnitude"
                        /\ a.value = "None"
                        /\ mod[c].qualnames = {CN}
                        /\ b = [a EXCEPT !.value = "0"] ]_vars

\* C9 as stated: Rule A returns the call unchanged unless its first argument
\* has no keyword and is not a splat.
C9_FirstArgPositional ==
    AfterRuleA =>
        \A c \in DOMAIN code :
            (Len(code[c].args) = 0 \/ ~PurelyPositional(code[c].args[1]))
            => mod[c] = code[c]

\* The number of positional slots taken by the arguments before argument i,
\* when every *-splat unpacks to n elements.
SlotsBefore(args, i, n) ==
    Cardinality({ j \in 1..(i - 1) : PurelyPositional(args[j]) })
        + n * Cardinality({ j \in 1..(i - 1) : args[j].star = "*" })

\* C10 as stated: every keyword Rule A inserts names the parameter the
\* argument was bound to positionally under the old signature, whatever the
\* length (0..MaxSplat) of the splats before it.
C10_BindingPreserved ==
    AfterRuleA =>
        \A c \in DOMAIN code :
            \A i \in DOMAIN code[c].args :
                ( /\ Cardinality(code[c].qualnames) = 1
                  /\ code[c].args[i].keyword = ""
                  /\ mod[c].args[i].keyword # "" ) =>
                    \A n \in 0..MaxSplat :
                        LET P == AlignedParams(TheName(code[c].qualnames))
                            b == SlotsBefore(code[c].args, i, n) + 1
                        IN  /\ b <= Len(P)
                            /\ P[b].name = mod[c].args[i].keyword

====
